---- MODULE Spec2Model ----
(***************************************************************************)
(* A model of AWSMetricsCollector (src/ec2ebs.py) and of the flat script   *)
(* it was refactored from (src/ec2_ebs.py).                                *)
(*                                                                         *)
(* One run of generate_reports is a sequential state machine whose steps   *)
(* are the code segments between two calls to the cloud backend.  The      *)
(* backend (describe_instances, describe_volumes, get_metric_statistics)   *)
(* is the environment: every answer it can give, a fault included, is      *)
(* drawn with \E.  pandas tables are records [cols, rows]; a float is an   *)
(* exact rational and NaN is a value of its own.                           *)
(***************************************************************************)
EXTENDS Integers, Sequences, FiniteSets, TLC

(***************************************************************************)
(* Bounds of the model.                                                    *)
(***************************************************************************)
\* the longest datapoint list one get_metric_statistics answer holds
MaxDatapoints == 2
\* the most attachment entries one volume carries
MaxAttachments == 2

\* the resources the account may hold
InstanceIds == {"i-1", "i-2"}
VolumeIds == {"v-1", "v-2"}
\* lexicographic rank of an identifier (groupby sorts its keys)
IdRank == [x \in InstanceIds \cup VolumeIds |->
            CASE x = "i-1" -> 1 [] x = "i-2" -> 2 [] x = "v-1" -> 3 [] OTHER -> 4]
\* the period values the backend reports, in the order it returns them
CpuSeries == <<10, 20, 30, 15>>
OpsSeries == <<3600, 7200, 1800, 5400>>
\* the instances a volume is attached to, in the order the backend lists them
AttachOrder == <<"i-2", "i-1", "i-3">>

(***************************************************************************)
(* Floats: an exact rational [num, den] with den > 0, or NaN (den = 0).    *)
(***************************************************************************)
RECURSIVE GCD(_, _)
GCD(a, b) == IF b = 0 THEN a ELSE GCD(b, a % b)

Abs(n) == IF n < 0 THEN -n ELSE n

NaN == [num |-> 0, den |-> 0]

IsNaN(x) == x.den = 0

Rat(n, d) ==
    LET g == GCD(Abs(n), Abs(d))
        s == IF d < 0 THEN -1 ELSE 1
    IN  [num |-> s * (n \div g), den |-> s * (d \div g)]

Zero == Rat(0, 1)

RAdd(a, b) ==
    IF IsNaN(a) \/ IsNaN(b) THEN NaN
    ELSE Rat(a.num * b.den + b.num * a.den, a.den * b.den)

RSub(a, b) ==
    IF IsNaN(a) \/ IsNaN(b) THEN NaN
    ELSE Rat(a.num * b.den - b.num * a.den, a.den * b.den)

RMul(a, b) ==
    IF IsNaN(a) \/ IsNaN(b) THEN NaN ELSE Rat(a.num * b.num, a.den * b.den)

RDivInt(a, n) ==
    IF IsNaN(a) \/ n = 0 THEN NaN ELSE Rat(a.num, a.den * n)

RLeq(a, b) == a.num * b.den <= b.num * a.den

RECURSIVE RSum(_)
RSum(s) == IF s = <<>> THEN Zero ELSE RAdd(s[1], RSum(Tail(s)))

RECURSIVE RMax(_)
RMax(s) ==
    IF Len(s) = 1 THEN s[1]
    ELSE LET m == RMax(Tail(s)) IN IF RLeq(m, s[1]) THEN s[1] ELSE m

(***************************************************************************)
(* pandas tables.                                                          *)
(***************************************************************************)
\* pd.DataFrame()
EmptyFrame == [cols |-> {}, rows |-> <<>>]

\* DataFrame.empty: no rows or no columns
IsEmpty(df) == df.rows = <<>> \/ df.cols = {}

\* the columns that hold floats, and those that hold text; every other
\* column (Size, Encrypted, Attachments, ...) holds a value that is never missing
FloatCols == {"Throughput", "meanCPU", "stdCPU", "maxCPU", "countCPU",
              "meanReadIOPS", "maxReadIOPS", "countReadIOPS",
              "meanWriteIOPS", "maxWriteIOPS", "countWriteIOPS",
              "MeanIOPS", "MaxIOPS", "Maximum"}
TextCols == {"ImageId", "InstanceId", "InstanceType", "PrivateDnsName",
             "PrivateIpAddress", "PublicDnsName", "PublicIpAddress", "State"}

\* the cell a row gets in a column its dict (or its join partner) lacks
Missing == "NaN"
MissingCell(c) == IF c \in FloatCols THEN NaN ELSE Missing
IsMissingCell(c, x) ==
    IF c \in FloatCols THEN IsNaN(x)
    ELSE IF c \in TextCols THEN x = Missing ELSE FALSE

RECURSIVE UnionKeys(_)
UnionKeys(dicts) ==
    IF dicts = <<>> THEN {} ELSE (DOMAIN dicts[1]) \cup UnionKeys(Tail(dicts))

\* pd.DataFrame(list of dicts): the columns are the union of the keys
FrameOf(dicts) ==
    LET cols == UnionKeys(dicts)
    IN  [cols |-> cols,
         rows |-> [k \in 1..Len(dicts) |->
                    [c \in cols |-> IF c \in DOMAIN dicts[k]
                                    THEN dicts[k][c] ELSE MissingCell(c)]]]

\* df[columns], defined when every column is there (KeyError otherwise)
HasColumns(df, columns) == columns \subseteq df.cols

Select(df, columns) ==
    [cols |-> columns,
     rows |-> [k \in 1..Len(df.rows) |-> [c \in columns |-> df.rows[k][c]]]]

\* df.fillna(v): every missing cell becomes v
FillNa(df, v) ==
    [cols |-> df.cols,
     rows |-> [k \in 1..Len(df.rows) |->
                [c \in df.cols |-> IF IsMissingCell(c, df.rows[k][c])
                                   THEN v ELSE df.rows[k][c]]]]

\* df[col].tolist()
Column(df, col) == [k \in 1..Len(df.rows) |-> df.rows[k][col]]

RECURSIVE Flatten(_)
Flatten(ss) == IF ss = <<>> THEN <<>> ELSE ss[1] \o Flatten(Tail(ss))

\* the key values of a table, in sorted order (groupby sorts its groups)
RECURSIVE SortedIds(_)
SortedIds(S) ==
    IF S = {} THEN <<>>
    ELSE LET m == CHOOSE x \in S : \A y \in S : IdRank[x] <= IdRank[y]
         IN  <<m>> \o SortedIds(S \ {m})

\* the Maximum values of the rows of one group, in row order
GroupValues(df, key, id) ==
    LET IsOfGroup(r) == r[key] = id
        rs == SelectSeq(df.rows, IsOfGroup)
    IN  [k \in 1..Len(rs) |-> rs[k]["Maximum"]]

\* arithmetic mean
Mean(vs) == RDivInt(RSum(vs), Len(vs))

\* sample standard deviation (ddof = 1), kept as its square: NaN for one value
Std(vs) ==
    IF Len(vs) < 2 THEN NaN
    ELSE LET m == Mean(vs)
             sq == [k \in 1..Len(vs) |-> RMul(RSub(vs[k], m), RSub(vs[k], m))]
         IN  RDivInt(RSum(sq), Len(vs) - 1)

\* one statistic of Series.agg
Agg(stat, vs) ==
    CASE stat = "mean" -> Mean(vs)
      [] stat = "std" -> Std(vs)
      [] stat = "max" -> RMax(vs)
      [] OTHER -> Rat(Len(vs), 1)

\* df.groupby(key).Maximum.agg(stats).reset_index() with the columns renamed:
\* names maps each statistic to its column
GroupByAgg(df, key, names) ==
    LET ids == SortedIds({df.rows[k][key] : k \in 1..Len(df.rows)})
    IN  [cols |-> {key} \cup {names[st] : st \in DOMAIN names},
         rows |-> [k \in 1..Len(ids) |->
                    [c \in {key} \cup {names[st] : st \in DOMAIN names} |->
                       IF c = key THEN ids[k]
                       ELSE Agg(CHOOSE st \in DOMAIN names : names[st] = c,
                                GroupValues(df, key, ids[k]))]]]

\* a merge that keeps only the left rows with a partner (how='inner')
MutInnerMerge(left, right, key) ==
    LET extra == right.cols \ left.cols
        Joined(l) ==
            LET Matches(r) == r[key] = l[key]
                ms == SelectSeq(right.rows, Matches)
            IN  [m \in 1..Len(ms) |-> l @@ [c \in extra |-> ms[m][c]]]
    IN  [cols |-> left.cols \cup right.cols,
         rows |-> Flatten([k \in 1..Len(left.rows) |-> Joined(left.rows[k])])]

\* pd.merge(left, right, on=key, how='left'): every left row, in left order, once
\* per matching right row, or once with missing cells when none matches
LeftMerge(left, right, key) ==
    LET extra == right.cols \ left.cols
        Joined(l) ==
            LET Matches(r) == r[key] = l[key]
                ms == SelectSeq(right.rows, Matches)
            IN  IF ms = <<>> THEN << l @@ [c \in extra |-> MissingCell(c)] >>
                ELSE [m \in 1..Len(ms) |-> l @@ [c \in extra |-> ms[m][c]]]
    IN  [cols |-> left.cols \cup right.cols,
         rows |-> Flatten([k \in 1..Len(left.rows) |-> Joined(left.rows[k])])]

(***************************************************************************)
(* The backend: what the cloud API can answer.                             *)
(***************************************************************************)
\* the sequences without repetition over a set
RECURSIVE SeqsDistinct(_)
SeqsDistinct(S) ==
    {<<>>} \cup UNION {{<<x>> \o t : t \in SeqsDistinct(S \ {x})} : x \in S}

\* the ways to cut a sequence into consecutive non-empty pieces
RECURSIVE Splits(_)
Splits(s) ==
    IF s = <<>> THEN {<<>>}
    ELSE UNION {{<<SubSeq(s, 1, k)>> \o t : t \in Splits(SubSeq(s, k + 1, Len(s)))}
                : k \in 1..Len(s)}

\* an instance of describe_instances; i-2 runs without a public address, and
\* the API leaves the key out then
InstanceDict(id) ==
    LET base == [ImageId |-> "ami-1", InstanceId |-> id, InstanceType |-> "t3.micro",
                 PrivateDnsName |-> "ip-10-0-0-1", PrivateIpAddress |-> "10.0.0.1",
                 PublicDnsName |-> "", State |-> "running"]
    IN  IF id = "i-1" THEN base @@ [PublicIpAddress |-> "203.0.113.1"] ELSE base

\* the answers of describe_instances: instances grouped by reservation
InstanceResponses ==
    UNION {{[Reservations |-> [k \in 1..Len(sp) |->
                                [Instances |-> [j \in 1..Len(sp[k]) |->
                                                 InstanceDict(sp[k][j])]]]]
            : sp \in Splits(ids)} : ids \in SeqsDistinct(InstanceIds)}

\* an attachment entry of a volume
AttachmentDict(iid, vid) == [InstanceId |-> iid, VolumeId |-> vid, State |-> "attached"]

\* a volume of describe_volumes attached n times; v-1 is a gp3 volume, v-2 a
\* gp2 volume, for which the API reports no Throughput
VolumeDict(id, n) ==
    LET base == [AvailabilityZone |-> "az-1", CreateTime |-> "2024-01-01",
                 Encrypted |-> FALSE, Size |-> 8, VolumeId |-> id, Iops |-> 3000,
                 VolumeType |-> IF id = "v-1" THEN "gp3" ELSE "gp2",
                 Attachments |-> [k \in 1..n |-> AttachmentDict(AttachOrder[k], id)]]
    IN  IF id = "v-1" THEN base @@ [Throughput |-> Rat(125, 1)] ELSE base

\* the answers of describe_volumes
VolumeResponses ==
    UNION {{[Volumes |-> [k \in 1..Len(ids) |-> VolumeDict(ids[k], f[k])]]
            : f \in [1..Len(ids) -> 0..MaxAttachments]}
           : ids \in SeqsDistinct(VolumeIds)}

\* the datapoint lists get_metric_statistics can answer for a metric
Series(metric) == IF metric = "CPUUtilization" THEN CpuSeries ELSE OpsSeries

DatapointLists(metric) ==
    {[k \in 1..n |-> [Maximum |-> Rat(Series(metric)[k], 1)]] : n \in 0..MaxDatapoints}

(***************************************************************************)
(* The computations of AWSMetricsCollector.                                *)
(***************************************************************************)
\* the sampling period process_ebs_metrics divides the period totals by
Period == 3600

\* get_ec2_instances: the report's inventory columns
InstanceColumns == {"ImageId", "InstanceId", "InstanceType", "PrivateDnsName",
                    "PrivateIpAddress", "PublicDnsName", "PublicIpAddress"}

\* process_ebs_metrics: final_columns
FinalColumns == {"AvailabilityZone", "CreateTime", "Encrypted", "Size", "VolumeId",
                 "Iops", "VolumeType", "Throughput", "MeanIOPS", "MaxIOPS", "InstanceId"}

\* get_ec2_instances: the instances of every reservation, in response order
FlattenReservations(response) ==
    Flatten([k \in 1..Len(response.Reservations) |->
              response.Reservations[k].Instances])

\* pd.concat([a, b], ignore_index=True)
Concat(a, b) ==
    LET cols == a.cols \cup b.cols
        Widen(r) == [c \in cols |-> IF c \in DOMAIN r THEN r[c] ELSE MissingCell(c)]
    IN  [cols |-> cols,
         rows |-> [k \in 1..Len(a.rows) |-> Widen(a.rows[k])]
                  \o [k \in 1..Len(b.rows) |-> Widen(b.rows[k])]]

\* get_cloudwatch_metrics, one answered query: df_temp gets the dimension
\* column and is appended, unless the answer holds no datapoint
WithDatapoints(df_metrics, dimension_name, value, datapoints) ==
    IF datapoints # <<>>
    THEN LET df_temp == FrameOf(datapoints)
             tagged == [cols |-> df_temp.cols \cup {dimension_name},
                        rows |-> [k \in 1..Len(df_temp.rows) |->
                                   df_temp.rows[k] @@ (dimension_name :> value)]]
         IN  Concat(df_metrics, tagged)
    ELSE df_metrics

\* df[name] = values, a value per row
AddColumn(df, name, values) ==
    [cols |-> df.cols \cup {name},
     rows |-> [k \in 1..Len(df.rows) |-> (name :> values[k]) @@ df.rows[k]]]

CpuNames == [mean |-> "meanCPU", std |-> "stdCPU", max |-> "maxCPU", count |-> "countCPU"]
ReadNames == [mean |-> "meanReadIOPS", max |-> "maxReadIOPS", count |-> "countReadIOPS"]
WriteNames == [mean |-> "meanWriteIOPS", max |-> "maxWriteIOPS", count |-> "countWriteIOPS"]

\* process_ec2_metrics, after the metrics are fetched
ProcessEc2(df, cpu_metrics) ==
    IF ~IsEmpty(cpu_metrics)
    THEN FillNa(LeftMerge(df, GroupByAgg(cpu_metrics, "InstanceId", CpuNames),
                          "InstanceId"), Zero)
    ELSE df

\* a conversion that divides the totals a second time
MutPerSecondTwice(df) ==
    IF ~IsEmpty(df)
    THEN [cols |-> df.cols,
          rows |-> [k \in 1..Len(df.rows) |->
                     [df.rows[k] EXCEPT !["Maximum"] = RDivInt(@, 3600 * 3600)]]]
    ELSE df

\* process_ebs_metrics: the conversion to per-second rates
PerSecond(df) ==
    IF ~IsEmpty(df)
    THEN [cols |-> df.cols,
          rows |-> [k \in 1..Len(df.rows) |->
                     [df.rows[k] EXCEPT !["Maximum"] = RDivInt(@, Period)]]]
    ELSE df

\* process_ebs_metrics: the aggregates of one side
SideAggregates(ops, names) ==
    IF ~IsEmpty(ops) THEN GroupByAgg(ops, "VolumeId", names) ELSE EmptyFrame

\* a resolver that takes the last attachment entry
MutResolveLast(row) ==
    IF row["Attachments"] # <<>>
    THEN row["Attachments"][Len(row["Attachments"])]["InstanceId"]
    ELSE ""

\* process_ebs_metrics: the instance a volume row is reported with
ResolveInstanceId(row) ==
    IF row["Attachments"] # <<>>
    THEN IF "InstanceId" \in DOMAIN row["Attachments"][1]
         THEN row["Attachments"][1]["InstanceId"] ELSE ""
    ELSE ""

\* process_ebs_metrics: the total IOPS columns
MaxIOPSColumn(df) ==
    [k \in 1..Len(df.rows) |-> RAdd(df.rows[k]["maxReadIOPS"], df.rows[k]["maxWriteIOPS"])]
MeanIOPSColumn(df) ==
    [k \in 1..Len(df.rows) |-> RAdd(df.rows[k]["meanReadIOPS"], df.rows[k]["meanWriteIOPS"])]

\* process_ebs_metrics: df_result before the final columns are selected;
\* read and write are the per-second tables
EbsResult(volumes, df_r, df_w) ==
    LET m1 == IF ~IsEmpty(df_r) THEN LeftMerge(volumes, df_r, "VolumeId") ELSE volumes
        m2 == IF ~IsEmpty(df_w) THEN LeftMerge(m1, df_w, "VolumeId") ELSE m1
        filled == FillNa(m2, Zero)
        summed == IF {"maxReadIOPS", "maxWriteIOPS"} \subseteq filled.cols
                  THEN AddColumn(AddColumn(filled, "MaxIOPS", MaxIOPSColumn(filled)),
                                 "MeanIOPS", MeanIOPSColumn(filled))
                  ELSE filled
    IN  AddColumn(summed, "InstanceId",
                  [k \in 1..Len(summed.rows) |-> ResolveInstanceId(summed.rows[k])])

(***************************************************************************)
(* One run of generate_reports.                                            *)
(***************************************************************************)
VARIABLES
    pc,                    \* where the run stands: start, query, volumes, done, raised
    raised,                \* the exception generate_reports let out ("" for none)
    log,                   \* the logger's records, in order
    files,                 \* the report files written
    calls,                 \* the backend calls made, in order
    inflight,              \* the metric queries issued and not yet answered
    response,              \* the inventory answer being processed (ids only)
    described,             \* the ids each inventory call returned, once it has
    faulted,               \* the inventory call the backend failed ("" for none)
    df_ec2,                \* generate_reports: df_ec2
    df_volumes,            \* generate_reports: df_volumes
    gm,                    \* the frame of the running get_cloudwatch_metrics call
    answers,               \* per metric, the answers its queries got in this stage
    read_ops,              \* process_ebs_metrics: read_ops
    write_ops,             \* process_ebs_metrics: write_ops
    df_read,               \* process_ebs_metrics: df_read
    df_write,              \* process_ebs_metrics: df_write
    df_ec2_processed,      \* generate_reports: df_ec2_processed
    df_volumes_processed   \* generate_reports: df_volumes_processed

vars == <<pc, raised, log, files, calls, inflight, response, described, faulted, df_ec2,
          df_volumes, gm, answers, read_ops, write_ops, df_read, df_write, df_ec2_processed,
          df_volumes_processed>>

Metrics == {"CPUUtilization", "VolumeReadOps", "VolumeWriteOps"}

Info(msg) == [level |-> "INFO", msg |-> msg, arg |-> ""]
Error(msg, arg) == [level |-> "ERROR", msg |-> msg, arg |-> arg]

Call(op, metric, id) == [op |-> op, metric |-> metric, id |-> id]

\* no get_cloudwatch_metrics call is running
Idle == [metric |-> "", dimension_name |-> "", dimension_values |-> <<>>, i |-> 1,
         df_metrics |-> EmptyFrame]

\* get_cloudwatch_metrics is entered: df_metrics = pd.DataFrame(), first value next
Enter(metric, dimension_name, dimension_values) ==
    [metric |-> metric, dimension_name |-> dimension_name,
     dimension_values |-> dimension_values, i |-> 1, df_metrics |-> EmptyFrame]

NoAnswers == [m \in Metrics |-> <<>>]

Init ==
    /\ pc = "start"
    /\ raised = ""
    /\ log = <<>>
    /\ files = {}
    /\ calls = <<>>
    /\ inflight = {}
    /\ response = <<>>
    /\ described = [instances |-> <<>>, volumes |-> <<>>, done |-> {}]
    /\ faulted = ""
    /\ df_ec2 = EmptyFrame
    /\ df_volumes = EmptyFrame
    /\ gm = Idle
    /\ answers = NoAnswers
    /\ read_ops = EmptyFrame
    /\ write_ops = EmptyFrame
    /\ df_read = EmptyFrame
    /\ df_write = EmptyFrame
    /\ df_ec2_processed = EmptyFrame
    /\ df_volumes_processed = EmptyFrame

\* generate_reports: describe_instances raises; get_ec2_instances logs and
\* re-raises, generate_reports logs and re-raises
DescribeInstancesFaults ==
    /\ pc = "start"
    /\ calls' = Append(calls, Call("describe_instances", "", ""))
    /\ log' = log \o <<Info("Retrieving EC2 instances..."),
                       Error("Error retrieving EC2 instances", "ClientError"),
                       Error("Error generating reports", "ClientError")>>
    /\ raised' = "ClientError"
    /\ pc' = "raised"
    /\ faulted' = calls'[Len(calls')].op
    /\ UNCHANGED <<files, inflight, response, described, df_ec2, df_volumes, gm,
                   answers, read_ops, write_ops, df_read, df_write, df_ec2_processed,
                   df_volumes_processed>>

\* generate_reports up to the first metric query: get_ec2_instances on an
\* answer of describe_instances, then the entry of process_ec2_metrics
RetrieveEc2Instances ==
    /\ pc = "start"
    /\ \E resp \in InstanceResponses :
         LET instances == FlattenReservations(resp)
             df == FrameOf(instances)
             ids == [k \in 1..Len(resp.Reservations) |->
                      [j \in 1..Len(resp.Reservations[k].Instances) |->
                        resp.Reservations[k].Instances[j].InstanceId]]
         IN  /\ calls' = Append(calls, Call("describe_instances", "", ""))
             /\ response' = ids
             /\ IF IsEmpty(df)
                THEN /\ log' = log \o <<Info("Retrieving EC2 instances..."),
                                        Info("No EC2 instances found in region"),
                                        Info("Retrieving EBS volumes...")>>
                     /\ described' = [described EXCEPT !.done = @ \cup {"instances"}]
                     /\ df_ec2' = EmptyFrame
                     /\ pc' = "volumes"
                     /\ UNCHANGED <<raised, gm>>
                ELSE IF ~HasColumns(df, InstanceColumns)
                THEN /\ log' = log \o <<Info("Retrieving EC2 instances..."),
                                        Error("Error retrieving EC2 instances", "KeyError"),
                                        Error("Error generating reports", "KeyError")>>
                     /\ raised' = "KeyError"
                     /\ pc' = "raised"
                     /\ UNCHANGED <<described, df_ec2, gm>>
                ELSE /\ log' = Append(log, Info("Retrieving EC2 instances..."))
                     /\ df_ec2' = FillNa(Select(df, InstanceColumns), "")
                     /\ described' = [described EXCEPT
                                        !.done = @ \cup {"instances"},
                                        !.instances = Column(df, "InstanceId")]
                     /\ gm' = Enter("CPUUtilization", "InstanceId",
                                    Column(df, "InstanceId"))
                     /\ pc' = "query"
                     /\ UNCHANGED raised
    /\ UNCHANGED <<faulted, files, inflight, df_volumes, answers, read_ops, write_ops, df_read, df_write,
                   df_ec2_processed, df_volumes_processed>>

\* get_cloudwatch_metrics: the loop calls get_metric_statistics for the next value
IssueQuery ==
    /\ pc = "query"
    /\ gm.i <= Len(gm.dimension_values)
    /\ inflight = {}
    /\ calls' = Append(calls, Call("get_metric_statistics", gm.metric,
                                   gm.dimension_values[gm.i]))
    /\ inflight' = {[metric |-> gm.metric, id |-> gm.dimension_values[gm.i]]}
    /\ UNCHANGED <<faulted, pc, raised, log, files, response, described, df_ec2, df_volumes,
                   gm, answers, read_ops, write_ops, df_read, df_write, df_ec2_processed,
                   df_volumes_processed>>

\* get_cloudwatch_metrics: the loop goes on with the value after this one
NextValue(i) == i + 1

\* a loop that asks again for the value whose query failed
MutRetrySame(i) == i

\* get_cloudwatch_metrics: the except clause swallows the fault, and the loop
\* goes on with the value after the failed one
AfterFault(i) == i + 1

\* get_cloudwatch_metrics: the query returns its datapoints
QueryReturns ==
    /\ pc = "query"
    /\ inflight # {}
    /\ \E datapoints \in DatapointLists(gm.metric) :
         LET value == gm.dimension_values[gm.i]
         IN  /\ gm' = [gm EXCEPT
                         !.df_metrics = WithDatapoints(@, gm.dimension_name, value,
                                                       datapoints),
                         !.i = NextValue(@)]
             /\ answers' = [answers EXCEPT ![gm.metric] =
                              Append(@, [id |-> value, fault |-> FALSE,
                                         datapoints |-> datapoints])]
    /\ inflight' = {}
    /\ UNCHANGED <<faulted, pc, raised, log, files, calls, response, described, df_ec2,
                   df_volumes, read_ops, write_ops, df_read, df_write, df_ec2_processed,
                   df_volumes_processed>>

\* a loop without the try: the fault of a query leaves get_cloudwatch_metrics
\* and ends the run in generate_reports
MutQueryFaultsPropagates ==
    /\ pc = "query"
    /\ inflight # {}
    /\ log' = Append(log, Error("Error generating reports", "ClientError"))
    /\ raised' = "ClientError"
    /\ pc' = "raised"
    /\ inflight' = {}
    /\ UNCHANGED <<faulted, files, calls, response, described, df_ec2, df_volumes, gm,
                   answers, read_ops, write_ops, df_read, df_write, df_ec2_processed,
                   df_volumes_processed>>

\* get_cloudwatch_metrics: the query raises; the except clause logs and the
\* loop goes on
QueryFaults ==
    /\ pc = "query"
    /\ inflight # {}
    /\ LET value == gm.dimension_values[gm.i]
       IN  /\ log' = Append(log, Error("Error retrieving CloudWatch metrics", value))
           /\ gm' = [gm EXCEPT !.i = AfterFault(@)]
           /\ answers' = [answers EXCEPT ![gm.metric] =
                            Append(@, [id |-> value, fault |-> TRUE,
                                       datapoints |-> <<>>])]
    /\ inflight' = {}
    /\ UNCHANGED <<faulted, pc, raised, files, calls, response, described, df_ec2, df_volumes,
                   read_ops, write_ops, df_read, df_write, df_ec2_processed,
                   df_volumes_processed>>

\* get_cloudwatch_metrics has gone through every value and returns df_metrics
Returned(metric) ==
    /\ pc = "query"
    /\ gm.metric = metric
    /\ gm.i > Len(gm.dimension_values)
    /\ inflight = {}

\* generate_reports from the last CPU answer to describe_volumes: the rest of
\* process_ec2_metrics, then to_csv
ProcessEc2Metrics ==
    /\ Returned("CPUUtilization")
    /\ df_ec2_processed' = ProcessEc2(df_ec2, gm.df_metrics)
    /\ files' = files \cup {"ec2_report"}
    /\ log' = log \o <<Info("EC2 report generated successfully"),
                       Info("Retrieving EBS volumes...")>>
    /\ gm' = Idle
    /\ pc' = "volumes"
    /\ UNCHANGED <<faulted, raised, calls, inflight, response, described, df_ec2, df_volumes,
                   answers, read_ops, write_ops, df_read, df_write,
                   df_volumes_processed>>

\* a get_ebs_volumes that logs the fault and returns an empty table
MutDescribeVolumesSwallowed ==
    /\ pc = "volumes"
    /\ calls' = Append(calls, Call("describe_volumes", "", ""))
    /\ log' = Append(log, Error("Error retrieving EBS volumes", "ClientError"))
    /\ faulted' = "describe_volumes"
    /\ pc' = "done"
    /\ UNCHANGED <<raised, files, inflight, response, described, df_ec2, df_volumes, gm,
                   answers, read_ops, write_ops, df_read, df_write, df_ec2_processed,
                   df_volumes_processed>>

\* generate_reports: describe_volumes raises; get_ebs_volumes logs and
\* re-raises, generate_reports logs and re-raises
DescribeVolumesFaults ==
    /\ pc = "volumes"
    /\ calls' = Append(calls, Call("describe_volumes", "", ""))
    /\ log' = log \o <<Error("Error retrieving EBS volumes", "ClientError"),
                       Error("Error generating reports", "ClientError")>>
    /\ raised' = "ClientError"
    /\ pc' = "raised"
    /\ faulted' = calls'[Len(calls')].op
    /\ UNCHANGED <<files, inflight, response, described, df_ec2, df_volumes, gm,
                   answers, read_ops, write_ops, df_read, df_write, df_ec2_processed,
                   df_volumes_processed>>

\* generate_reports: get_ebs_volumes on an answer of describe_volumes, then the
\* entry of process_ebs_metrics.  The tables of the EC2 half are not read again
\* (the report went to its file in the step before): they are cleared here
RetrieveEbsVolumes ==
    /\ pc = "volumes"
    /\ \E resp \in VolumeResponses :
         LET df == FillNa(FrameOf(resp.Volumes), Zero)
         IN  /\ calls' = Append(calls, Call("describe_volumes", "", ""))
             /\ response' = [k \in 1..Len(resp.Volumes) |-> resp.Volumes[k].VolumeId]
             /\ df_volumes' = df
             /\ df_ec2' = EmptyFrame
             /\ df_ec2_processed' = EmptyFrame
             /\ answers' = NoAnswers
             /\ IF IsEmpty(df)
                THEN /\ described' = [described EXCEPT !.done = @ \cup {"volumes"}]
                     /\ pc' = "done"
                     /\ UNCHANGED gm
                ELSE /\ described' = [described EXCEPT
                                        !.done = @ \cup {"volumes"},
                                        !.volumes = Column(df, "VolumeId")]
                     /\ gm' = Enter("VolumeReadOps", "VolumeId", Column(df, "VolumeId"))
                     /\ pc' = "query"
    /\ UNCHANGED <<faulted, raised, log, files, inflight, read_ops, write_ops, df_read,
                   df_write, df_volumes_processed>>

\* process_ebs_metrics: the read metrics are in, the write metrics are fetched
FetchWriteOps ==
    /\ Returned("VolumeReadOps")
    /\ read_ops' = gm.df_metrics
    /\ gm' = Enter("VolumeWriteOps", "VolumeId", Column(df_volumes, "VolumeId"))
    /\ UNCHANGED <<faulted, pc, raised, log, files, calls, inflight, response, described,
                   df_ec2, df_volumes, answers, write_ops, df_read, df_write,
                   df_ec2_processed, df_volumes_processed>>

\* generate_reports from the last write answer to its end: the rest of
\* process_ebs_metrics, then to_csv, or the KeyError of the column selection
ProcessEbsMetrics ==
    /\ Returned("VolumeWriteOps")
    /\ LET r == PerSecond(read_ops)
           w == PerSecond(gm.df_metrics)
           dr == SideAggregates(r, ReadNames)
           dw == SideAggregates(w, WriteNames)
           df_result == EbsResult(df_volumes, dr, dw)
       IN  /\ read_ops' = r
           /\ write_ops' = w
           /\ df_read' = dr
           /\ df_write' = dw
           /\ IF HasColumns(df_result, FinalColumns)
              THEN /\ df_volumes_processed' = Select(df_result, FinalColumns)
                   /\ files' = files \cup {"ebs_report"}
                   /\ log' = Append(log, Info("EBS report generated successfully"))
                   /\ pc' = "done"
                   /\ UNCHANGED raised
              ELSE /\ log' = Append(log, Error("Error generating reports", "KeyError"))
                   /\ raised' = "KeyError"
                   /\ pc' = "raised"
                   /\ UNCHANGED <<files, df_volumes_processed>>
    /\ gm' = Idle
    /\ UNCHANGED <<faulted, calls, inflight, response, described, df_ec2, df_volumes, answers,
                   df_ec2_processed>>

Next ==
    \/ DescribeInstancesFaults
    \/ RetrieveEc2Instances
    \/ IssueQuery
    \/ QueryReturns
    \/ QueryFaults
    \/ ProcessEc2Metrics
    \/ DescribeVolumesFaults
    \/ RetrieveEbsVolumes
    \/ FetchWriteOps
    \/ ProcessEbsMetrics

Spec == Init /\ [][Next]_vars

(***************************************************************************)
(* The flat script (src/ec2_ebs.py), EBS half, on the same backend answers.*)
(* reads and writes are the answers, one per volume, in inventory order.   *)
(***************************************************************************)
\* df2 = pd.DataFrame(stats['Datapoints']); df2['VolumeId'] = volid
FlatTagged(datapoints, volid) ==
    LET df2 == FrameOf(datapoints)
    IN  [cols |-> df2.cols \cup {"VolumeId"},
         rows |-> [k \in 1..Len(df2.rows) |-> df2.rows[k] @@ ("VolumeId" :> volid)]]

\* the loop over df_v['VolumeId']: every answer is appended, empty ones too
RECURSIVE FlatMetrics(_, _)
FlatMetrics(ans, n) ==
    IF n = 0 THEN EmptyFrame
    ELSE Concat(FlatMetrics(ans, n - 1), FlatTagged(ans[n].datapoints, ans[n].id))

\* dfiops['Maximum'] = dfiops['Maximum'] / 3600, whatever the table holds
FlatPerSecond(df) ==
    [cols |-> df.cols,
     rows |-> [k \in 1..Len(df.rows) |->
                [df.rows[k] EXCEPT !["Maximum"] = RDivInt(@, Period)]]]

\* the attachment loop: np.where over the whole column, once per entry
RECURSIVE FlatAssign(_, _, _)
FlatAssign(col, entries, vids) ==
    IF entries = <<>> THEN col
    ELSE FlatAssign([k \in 1..Len(col) |->
                       IF vids[k] = entries[1]["VolumeId"]
                       THEN entries[1]["InstanceId"] ELSE col[k]],
                    Tail(entries), vids)

\* the script runs to its end: both metric tables have a Maximum column and the
\* inventory has every report column
FlatCompletes(df_v, reads, writes) ==
    /\ "Maximum" \in FlatMetrics(reads, Len(reads)).cols
    /\ "Maximum" \in FlatMetrics(writes, Len(writes)).cols
    /\ HasColumns(df_v, FinalColumns \ {"MeanIOPS", "MaxIOPS", "InstanceId"})

\* df_v4, the EBS report of the script
FlatReport(df_v, reads, writes) ==
    LET dfiops_read == FlatPerSecond(FlatMetrics(reads, Len(reads)))
        dfiops_write == FlatPerSecond(FlatMetrics(writes, Len(writes)))
        df_agg_read == GroupByAgg(dfiops_read, "VolumeId", ReadNames)
        df_agg_write == GroupByAgg(dfiops_write, "VolumeId", WriteNames)
        df_v2 == LeftMerge(df_v, df_agg_read, "VolumeId")
        df_v3 == LeftMerge(df_v2, df_agg_write, "VolumeId")
        summed == FillNa(AddColumn(AddColumn(df_v3, "MaxIOPS", MaxIOPSColumn(df_v3)),
                                   "MeanIOPS", MeanIOPSColumn(df_v3)), Zero)
        iids == FlatAssign([k \in 1..Len(summed.rows) |-> ""],
                           Flatten(Column(summed, "Attachments")),
                           Column(summed, "VolumeId"))
    IN  Select(AddColumn(summed, "InstanceId", iids), FinalColumns)

(***************************************************************************)
(* The claims.                                                             *)
(***************************************************************************)
CpuColumns == {"meanCPU", "stdCPU", "maxCPU", "countCPU"}
InventoryColumns == FinalColumns \ {"MeanIOPS", "MaxIOPS", "InstanceId"}

\* process_ec2_metrics has returned and its table has gone to the EC2 report
Ec2ReportWritten == pc = "volumes" /\ "ec2_report" \in files

\* process_ebs_metrics was entered and has ended, by a return or by an exception
EbsEnded == pc \in {"done", "raised"} /\ described.volumes # <<>>

\* process_ebs_metrics has returned and its table has gone to the EBS report
EbsReportWritten == pc = "done" /\ "ebs_report" \in files

\* the period values the queries of a metric returned for an id: none when the
\* query failed or was answered with no datapoint
Returns(metric, id) ==
    LET Of(a) == a.id = id
        as == SelectSeq(answers[metric], Of)
    IN  IF as = <<>> THEN <<>>
        ELSE [k \in 1..Len(as[1].datapoints) |-> as[1].datapoints[k]["Maximum"]]

\* the cell of an aggregate table for a volume: 0 when the volume has no row
SideCell(df, vid, col) ==
    LET Of(r) == r["VolumeId"] = vid
        rs == SelectSeq(df.rows, Of)
    IN  IF rs = <<>> \/ col \notin df.cols THEN Zero ELSE rs[1][col]

\* the ids of the get_metric_statistics calls made for a metric, in call order
MetricCalls(metric) ==
    LET Of(c) == c.op = "get_metric_statistics" /\ c.metric = metric
        cs == SelectSeq(calls, Of)
    IN  [k \in 1..Len(cs) |-> cs[k].id]

IsPrefix(s, t) == Len(s) <= Len(t) /\ s = SubSeq(t, 1, Len(s))

\* the number of instances in the reservations before the r-th
RECURSIVE Before(_, _)
Before(resp, r) == IF r <= 1 THEN 0 ELSE Before(resp, r - 1) + Len(resp[r - 1])

\* C1: the table process_ec2_metrics returns has one row per instance, carries
\* meanCPU, stdCPU, maxCPU and countCPU, and every instance whose query brought
\* no datapoint has all four equal to 0
C1_ZeroDatapointsAllZero ==
    Ec2ReportWritten =>
        /\ Len(df_ec2_processed.rows) = Len(df_ec2.rows)
        /\ CpuColumns \subseteq df_ec2_processed.cols
        /\ \A k \in 1..Len(df_ec2_processed.rows) :
             Returns("CPUUtilization", df_ec2_processed.rows[k]["InstanceId"]) = <<>>
             => \A c \in CpuColumns : df_ec2_processed.rows[k][c] = Zero

\* C2: process_ebs_metrics returns normally on every non-empty volume inventory
\* (one that carries the report's inventory columns), with one row per volume
\* whose MaxIOPS and MeanIOPS are the sums of the read and write aggregates, a
\* side without datapoints counting as 0; a volume with no read datapoint and
\* the write total 3600 gets MeanIOPS = MaxIOPS = 1
C2_IopsAreSums ==
    (EbsEnded /\ HasColumns(df_volumes, InventoryColumns)) =>
        /\ raised = ""
        /\ Len(df_volumes_processed.rows) = Len(df_volumes.rows)
        /\ \A k \in 1..Len(df_volumes.rows) :
             LET vid == df_volumes.rows[k]["VolumeId"]
                 row == df_volumes_processed.rows[k]
             IN  /\ row["VolumeId"] = vid
                 /\ row["MaxIOPS"] = RAdd(SideCell(df_read, vid, "maxReadIOPS"),
                                          SideCell(df_write, vid, "maxWriteIOPS"))
                 /\ row["MeanIOPS"] = RAdd(SideCell(df_read, vid, "meanReadIOPS"),
                                           SideCell(df_write, vid, "meanWriteIOPS"))
                 /\ (/\ Returns("VolumeReadOps", vid) = <<>>
                     /\ Returns("VolumeWriteOps", vid) = <<Rat(3600, 1)>>)
                    => row["MeanIOPS"] = Rat(1, 1) /\ row["MaxIOPS"] = Rat(1, 1)

C4_FaultsAreIsolated ==
    /\ raised = "ClientError" => faulted # ""
    /\ (pc = "query" /\ gm.i > Len(gm.dimension_values) /\ inflight = {}) =>
         LET as == answers[gm.metric]
         IN  /\ [k \in 1..Len(as) |-> as[k].id] = gm.dimension_values
             /\ gm.df_metrics.rows =
                  Flatten([k \in 1..Len(as) |->
                            [j \in 1..Len(as[k].datapoints) |->
                               (gm.dimension_name :> as[k].id)
                               @@ [Maximum |-> as[k].datapoints[j]["Maximum"]]]])

\* C4 happens: the first of two queries failed, the second returned datapoints
C4_Witness ==
    /\ pc = "query" /\ gm.i > Len(gm.dimension_values) /\ inflight = {}
    /\ Len(answers[gm.metric]) = 2
    /\ answers[gm.metric][1].fault
    /\ answers[gm.metric][2].datapoints # <<>>
    /\ Len(gm.df_metrics.rows) = Len(answers[gm.metric][2].datapoints)

\* C5: once describe_instances or describe_volumes has raised, the run has
\* ended with that fault let out of generate_reports, both error records are
\* the last of the log, the failed call is the last backend call and no report
\* is written after it
C5_InventoryFaultIsFatal ==
    faulted # "" =>
        /\ pc = "raised"
        /\ raised = "ClientError"
        /\ calls[Len(calls)].op = faulted
        /\ inflight = {}
        /\ Len(log) >= 2
        /\ log[Len(log)] = Error("Error generating reports", "ClientError")
        /\ log[Len(log) - 1].level = "ERROR"
        /\ log[Len(log) - 1].arg = "ClientError"
        /\ "ebs_report" \notin files
        /\ faulted = "describe_instances" => files = {} /\ Len(calls) = 1

\* C5 happens: describe_volumes fails after the EC2 report was written
C5_Witness ==
    /\ faulted = "describe_volumes"
    /\ "ec2_report" \in files
    /\ pc = "raised"

\* C6: in the table process_ebs_metrics returns, the InstanceId of a volume is
\* the instance of the first entry of that volume's own Attachments, and ""
\* when the volume has none
C6_FirstAttachment ==
    EbsReportWritten =>
        \A k \in 1..Len(df_volumes.rows) :
            LET att == df_volumes.rows[k]["Attachments"]
                row == df_volumes_processed.rows[k]
            IN  /\ row["VolumeId"] = df_volumes.rows[k]["VolumeId"]
                /\ row["InstanceId"] = IF att = <<>> THEN "" ELSE att[1]["InstanceId"]

\* C6 happens: a volume attached twice is reported next to one attached nowhere
C6_Witness ==
    /\ EbsReportWritten
    /\ Len(df_volumes.rows) = 2
    /\ Len(df_volumes.rows[1]["Attachments"]) = 2
    /\ df_volumes.rows[2]["Attachments"] = <<>>
    /\ df_volumes_processed.rows[1]["InstanceId"] = "i-2"
    /\ df_volumes_processed.rows[2]["InstanceId"] = ""

\* C7: when describe_instances returns no instance (and describe_volumes does
\* not fail), generate_reports makes no CPU query, writes no EC2 report, logs
\* the informational record, raises nothing, fetches the volume inventory and
\* writes the EBS report when volumes (with the report's inventory columns) exist
C7_EmptyInventoryIsNoError ==
    (/\ pc \in {"done", "raised"}
     /\ "instances" \in described.done
     /\ described.instances = <<>>
     /\ faulted = ""
     /\ HasColumns(df_volumes, InventoryColumns) \/ IsEmpty(df_volumes)) =>
        /\ MetricCalls("CPUUtilization") = <<>>
        /\ "ec2_report" \notin files
        /\ \E k \in 1..Len(log) : log[k] = Info("No EC2 instances found in region")
        /\ \E k \in 1..Len(calls) : calls[k].op = "describe_volumes"
        /\ raised = ""
        /\ described.volumes # <<>> => "ebs_report" \in files

\* C8: every VolumeReadOps and VolumeWriteOps value is divided by 3600 once
\* before the per-volume mean and max are taken (the totals 3600, 7200 give
\* the mean 3/2 and the max 2), and CPU values are aggregated as returned
C8_DividedOnce ==
    /\ EbsEnded =>
         \A m \in {"VolumeReadOps", "VolumeWriteOps"} :
           \A k \in 1..Len(df_volumes.rows) :
             LET vid == df_volumes.rows[k]["VolumeId"]
                 raw == Returns(m, vid)
                 side == IF m = "VolumeReadOps" THEN df_read ELSE df_write
                 mean == IF m = "VolumeReadOps" THEN "meanReadIOPS" ELSE "meanWriteIOPS"
                 max == IF m = "VolumeReadOps" THEN "maxReadIOPS" ELSE "maxWriteIOPS"
             IN  raw # <<>> =>
                   /\ RMul(SideCell(side, vid, mean), Rat(Period * Len(raw), 1)) = RSum(raw)
                   /\ RMul(SideCell(side, vid, max), Rat(Period, 1)) = RMax(raw)
                   /\ raw = <<Rat(3600, 1), Rat(7200, 1)>> =>
                        /\ SideCell(side, vid, mean) = Rat(3, 2)
                        /\ SideCell(side, vid, max) = Rat(2, 1)
    /\ Ec2ReportWritten =>
         \A k \in 1..Len(df_ec2_processed.rows) :
           LET row == df_ec2_processed.rows[k]
               raw == Returns("CPUUtilization", row["InstanceId"])
           IN  raw # <<>> =>
                 /\ RMul(row["meanCPU"], Rat(Len(raw), 1)) = RSum(raw)
                 /\ row["maxCPU"] = RMax(raw)
                 /\ row["countCPU"] = Rat(Len(raw), 1)

\* C8 happens: a volume whose read totals are 3600, 7200 has the mean rate 3/2
\* and the max rate 2
C8_Witness ==
    /\ EbsEnded
    /\ \E k \in 1..Len(df_volumes.rows) :
         LET vid == df_volumes.rows[k]["VolumeId"]
         IN  /\ Returns("VolumeReadOps", vid) = <<Rat(3600, 1), Rat(7200, 1)>>
             /\ SideCell(df_read, vid, "meanReadIOPS") = Rat(3, 2)
             /\ SideCell(df_read, vid, "maxReadIOPS") = Rat(2, 1)

\* C9: the metric queries go out one per id, in inventory order, each id once
\* per metric, never two at a time; a run whose inventory calls both returned
\* has made I + 2 * V of them when it ends
C9_OneQueryPerId ==
    /\ IsPrefix(MetricCalls("CPUUtilization"), described.instances)
    /\ IsPrefix(MetricCalls("VolumeReadOps"), described.volumes)
    /\ IsPrefix(MetricCalls("VolumeWriteOps"), described.volumes)
    /\ Cardinality(inflight) <= 1
    /\ pc = "query" => Len(MetricCalls(gm.metric)) = (gm.i - 1) + Cardinality(inflight)
    /\ (pc \in {"done", "raised"} /\ described.done = {"instances", "volumes"}) =>
         Len(MetricCalls("CPUUtilization")) + Len(MetricCalls("VolumeReadOps"))
           + Len(MetricCalls("VolumeWriteOps"))
         = Len(described.instances) + 2 * Len(described.volumes)

\* C9 happens: a run over two instances and two volumes ends after six queries,
\* one of which failed
C9_Witness ==
    /\ pc \in {"done", "raised"}
    /\ Len(described.instances) = 2
    /\ Len(described.volumes) = 2
    /\ Len(calls) = 8
    /\ \E k \in 1..Len(log) : log[k].msg = "Error retrieving CloudWatch metrics"

\* C10: whenever the class and the flat script both complete on the same
\* inventory and the same fault-free answers, every volume has the same
\* MeanIOPS, MaxIOPS and InstanceId in both reports
C10_FlatScriptAgrees ==
    (/\ EbsReportWritten
     /\ \A m \in {"VolumeReadOps", "VolumeWriteOps"} :
          \A k \in 1..Len(answers[m]) : ~answers[m][k].fault
     /\ FlatCompletes(df_volumes, answers["VolumeReadOps"], answers["VolumeWriteOps"])) =>
        LET flat == FlatReport(df_volumes, answers["VolumeReadOps"],
                               answers["VolumeWriteOps"])
        IN  /\ Len(flat.rows) = Len(df_volumes_processed.rows)
            /\ \A k \in 1..Len(flat.rows) :
                 \A c \in {"MeanIOPS", "MaxIOPS", "InstanceId"} :
                   flat.rows[k][c] = df_volumes_processed.rows[k][c]
====
